---- MODULE Spec2Model ----
(***************************************************************************)
(* Accept-header content negotiation of grafserv: makeAcceptMatcher,       *)
(* preferredAccept, matchesParameters, isToken, parseAccepts               *)
(* (src/grafast/grafserv/src/accept.ts).                                   *)
(*                                                                         *)
(* A JavaScript string is a sequence of one-character strings, so that     *)
(* "a/b" is <<"a", "/", "b">>; charCode gives the UTF-16 code of a         *)
(* character as charCodeAt does.  A value that may be null or undefined    *)
(* is a sequence of length 0 (null / undefined) or 1.                      *)
(***************************************************************************)
EXTENDS Integers, Sequences, FiniteSets, TLC

\* mediaTypes and lru are the matcher's closure (lines 9-30), maxLength the
\* bound the LRU was built with.  The others record the calls made: whether
\* any was made, the argument and outcome of the last one, whether it ran
\* parseAccepts, the ranges that returned and the same ranges in the order
\* next() pushed them, whether it ran lru.set, the outcome of the first call
\* for each argument, whether the last argument was a repeat, and the
\* headers found in or stored into the cache, the latest first.  locals
\* holds the locals of parseAccepts where a call is followed byte by byte.
VARIABLES mediaTypes, lru, maxLength, called, acceptHeader, outcome, parsed,
          parsedSpecs, committed, inserted, firstOutcome, repeated, recency,
          locals

vars == <<mediaTypes, lru, maxLength, called, acceptHeader, outcome, parsed,
          parsedSpecs, committed, inserted, firstOutcome, repeated, recency,
          locals>>

(***************************************************************************)
(* Characters.  Printable is the ASCII range 32..126 in code order (the    *)
(* grave accent, code 96, is written GRAVE).                               *)
(***************************************************************************)
Printable ==
  << " ", "!", "\"", "#", "$", "%", "&", "'", "(", ")", "*", "+", ",", "-", ".", "/",
     "0", "1", "2", "3", "4", "5", "6", "7", "8", "9", ":", ";", "<", "=", ">", "?",
     "@", "A", "B", "C", "D", "E", "F", "G", "H", "I", "J", "K", "L", "M", "N", "O",
     "P", "Q", "R", "S", "T", "U", "V", "W", "X", "Y", "Z", "[", "\\", "]", "^", "_",
     "GRAVE", "a", "b", "c", "d", "e", "f", "g", "h", "i", "j", "k", "l", "m", "n", "o",
     "p", "q", "r", "s", "t", "u", "v", "w", "x", "y", "z", "{", "|", "}", "~" >>

\* String.prototype.charCodeAt for one character ("\t" is the only
\* non-printable character the model's headers use).
CodeTable ==
  [c \in {Printable[k] : k \in 1..Len(Printable)} |->
     31 + (CHOOSE k \in 1..Len(Printable) : Printable[k] = c)]

charCode(c) == IF c = "\t" THEN 9 ELSE CodeTable[c]

\* charCodeAt past the end of the string is NaN, which equals no code.
NaNCode == 0 - 1

charCodeAt(s, i) == IF i \in 1..Len(s) THEN charCode(s[i]) ELSE NaNCode

SPACE == 32
HORIZONTAL_TAB == 9
ASTERISK == 42
SLASH == 47
COMMA == 44
SEMICOLON == 59
EQUALS == 61
DOUBLE_QUOTE == 34
BACKSLASH == 92

WHITESPACE_START == 9
WHITESPACE_END == 13

isWhitespace(code) ==
  code = SPACE \/ (code >= WHITESPACE_START /\ code <= WHITESPACE_END)

isOWS(code) == code = SPACE \/ code = HORIZONTAL_TAB

isToken(code) ==
  \/ (code >= 94 /\ code <= 122)
  \/ (code >= 35 /\ code <= 57 /\ code # 40 /\ code # 41 /\ code # 44)
  \/ (code >= 65 /\ code <= 90)
  \/ code = 33
  \/ code = 124
  \/ code = 126

(***************************************************************************)
(* Numbers.  A q value is the exact decimal sign * n / d with d a power of *)
(* ten, or NaN.                                                            *)
(***************************************************************************)
Num(n, d) == [nan |-> FALSE, n |-> n, d |-> d]
NaN == [nan |-> TRUE, n |-> 0, d |-> 1]
Zero == Num(0, 1)
One == Num(1, 1)

\* a > b and a < b of JavaScript: false when either side is NaN.
Gt(a, b) == ~a.nan /\ ~b.nan /\ a.n * b.d > b.n * a.d
Lt(a, b) == Gt(b, a)
NumEq(a, b) == ~a.nan /\ ~b.nan /\ a.n * b.d = b.n * a.d

isDigit(c) == charCode(c) >= 48 /\ charCode(c) <= 57
digitValue(c) == charCode(c) - 48

\* The longest prefix of s from position i made of decimal digits.
RECURSIVE digitsEnd(_, _)
digitsEnd(s, i) ==
  IF i <= Len(s) /\ isDigit(s[i]) THEN digitsEnd(s, i + 1) ELSE i

RECURSIVE digitsValue(_, _, _)
digitsValue(s, i, j) ==
  IF j <= i THEN 0 ELSE 10 * digitsValue(s, i, j - 1) + digitValue(s[j - 1])

RECURSIVE pow10(_)
pow10(k) == IF k = 0 THEN 1 ELSE 10 * pow10(k - 1)

RECURSIVE skipWhitespace(_, _)
skipWhitespace(s, i) ==
  IF i <= Len(s) /\ isWhitespace(charCode(s[i])) THEN skipWhitespace(s, i + 1) ELSE i

\* The decimal with integer digits s[i1..i2-1] and fraction digits
\* s[i2+1..i3-1]; NaN without any digit.
decimal(s, neg, i1, i2, i3) ==
  IF i3 - i1 = 0 \/ (i2 = i1 /\ i3 = i2 + 1) THEN NaN
  ELSE Num((IF neg THEN 0 - 1 ELSE 1)
             * (digitsValue(s, i1, i2) * pow10(IF i3 > i2 THEN i3 - i2 - 1 ELSE 0)
                + (IF i3 > i2 THEN digitsValue(s, i2 + 1, i3) ELSE 0)),
           pow10(IF i3 > i2 THEN i3 - i2 - 1 ELSE 0))

\* The fraction after the integer digits that end before i2.
fraction(s, neg, i1, i2) ==
  decimal(s, neg, i1, i2,
          IF i2 <= Len(s) /\ s[i2] = "." THEN digitsEnd(s, i2 + 1) ELSE i2)

\* The digits after an optional sign at i0.
signed(s, i0) ==
  IF i0 <= Len(s) /\ (s[i0] = "-" \/ s[i0] = "+")
  THEN fraction(s, s[i0] = "-", i0 + 1, digitsEnd(s, i0 + 1))
  ELSE fraction(s, FALSE, i0, digitsEnd(s, i0))

\* parseFloat on the decimal literals without exponent: leading white space,
\* an optional sign, digits, an optional fraction; the longest such prefix
\* is the value and a string with no such prefix is NaN.  ("Infinity" and an
\* exponent part do not occur in the headers of the model.)
parseFloat(s) == signed(s, skipWhitespace(s, 1))

(***************************************************************************)
(* Accept (lines 83-88).  parameters is a prototype-less object: a         *)
(* function from the keys present to their values.                         *)
(***************************************************************************)
NoParameters == [k \in {} |-> <<>>]

setParameter(ps, k, v) ==
  [x \in (DOMAIN ps) \cup {k} |-> IF x = k THEN v ELSE ps[x]]

deleteParameter(ps, k) == [x \in (DOMAIN ps) \ {k} |-> ps[x]]

\* The string "undefined", which `undefined += c` yields before c.
UndefinedText == <<"u", "n", "d", "e", "f", "i", "n", "e", "d">>

\* obj[k] += c on a prototype-less object: a missing key reads undefined.
appendParameter(ps, k, c) ==
  setParameter(ps, k, (IF k \in DOMAIN ps THEN ps[k] ELSE UndefinedText) \o <<c>>)

Q == <<"q">>

\* Lines 202-207 and 219-224 with q: 0.
newAcceptZeroQ(t) ==
  [type |-> t, subtype |-> <<>>, q |-> Zero, parameters |-> NoParameters]

\* Lines 202-207 and 219-224: the range a first byte opens.
newAccept(t) ==
  [type |-> t, subtype |-> <<>>, q |-> One, parameters |-> NoParameters]

EXPECT_TYPE == 0
CONTINUE_TYPE == 1
EXPECT_SUBTYPE == 2
CONTINUE_SUBTYPE == 3
EXPECT_COMMA_OR_SEMICOLON == 4
EXPECT_PARAMETER_NAME == 5
CONTINUE_PARAMETER_NAME == 6
EXPECT_PARAMETER_VALUE == 7
CONTINUE_PARAMETER_VALUE == 8
CONTINUE_QUOTED_PARAMETER_VALUE == 9

NoError == "none"

\* The locals of parseAccepts before its loop; i is the 1-based loop index.
parserInit ==
  [state |-> EXPECT_TYPE, accepts |-> <<>>, currentAccept |-> <<>>,
   currentParameterName |-> <<>>, i |-> 1, error |-> NoError]

fail(p, msg) == [p EXCEPT !.error = msg]

unexpected(p) == fail(p, "Unexpected character")

\* Lines 191-192 without line 193: the state stays what it was.
pushKeepsState(p, accept) ==
  [p EXCEPT !.accepts = Append(p.accepts, accept),
            !.currentAccept = <<>>]

\* Lines 191-193: push the range and expect the next one.
push(p, accept) ==
  [p EXCEPT !.accepts = Append(p.accepts, accept),
            !.currentAccept = <<>>,
            !.state = EXPECT_TYPE]

\* Lines 184-190: the range with its q parameter parsed to q.
pushWithQ(p, q) ==
  IF q.nan \/ Lt(q, Zero) \/ Gt(q, One) THEN fail(p, "q out of range")
  ELSE push(p, [p.currentAccept[1] EXCEPT
                  !.parameters = deleteParameter(@, Q), !.q = q])

\* next(): commit the current range.  currentAccept! on null is a TypeError;
\* line 183 tests parameters.q for truthiness, so an empty q is left alone.
next(p) ==
  IF p.currentAccept = <<>> THEN fail(p, "TypeError")
  ELSE IF Q \in DOMAIN p.currentAccept[1].parameters
          /\ p.currentAccept[1].parameters[Q] # <<>>
  THEN pushWithQ(p, parseFloat(p.currentAccept[1].parameters[Q]))
  ELSE push(p, p.currentAccept[1])

\* currentAccept!.f = v; a null currentAccept makes the write a TypeError.
withCurrent(p, acc) ==
  IF p.currentAccept = <<>> THEN fail(p, "TypeError")
  ELSE [p EXCEPT !.currentAccept = <<acc>>]

current(p) == p.currentAccept[1]

\* case State.EXPECT_TYPE
expectType(p, h) ==
  LET code == charCodeAt(h, p.i) IN
  IF isWhitespace(code) THEN p
  ELSE IF code = ASTERISK THEN
    LET star == newAccept(<<"*">>)
        j == p.i + 1
    IN IF charCodeAt(h, j) # SLASH
       THEN fail([p EXCEPT !.currentAccept = <<star>>, !.i = j],
                 "Expected '/' after '*'")
       ELSE IF charCodeAt(h, j + 1) = ASTERISK
            THEN [p EXCEPT !.currentAccept = <<[star EXCEPT !.subtype = <<"*">>]>>,
                           !.i = j + 1,
                           !.state = EXPECT_COMMA_OR_SEMICOLON]
            ELSE [p EXCEPT !.currentAccept = <<star>>,
                           !.i = j,
                           !.state = EXPECT_SUBTYPE]
  ELSE IF isToken(code) THEN
    [p EXCEPT !.currentAccept = <<newAccept(<<h[p.i]>>)>>,
              !.state = CONTINUE_TYPE]
  ELSE unexpected(p)

\* case State.CONTINUE_TYPE
continueType(p, h) ==
  LET code == charCodeAt(h, p.i) IN
  IF code = SLASH THEN [p EXCEPT !.state = EXPECT_SUBTYPE]
  ELSE IF isToken(code) THEN
    withCurrent(p, [current(p) EXCEPT !.type = @ \o <<h[p.i]>>])
  ELSE unexpected(p)

\* case State.EXPECT_SUBTYPE
expectSubtype(p, h) ==
  LET code == charCodeAt(h, p.i) IN
  IF isToken(code) THEN
    withCurrent([p EXCEPT !.state = CONTINUE_SUBTYPE],
                [current(p) EXCEPT !.subtype = <<h[p.i]>>])
  ELSE unexpected(p)

\* case State.CONTINUE_SUBTYPE: line 258 appends the token byte to type.
continueSubtype(p, h) ==
  LET code == charCodeAt(h, p.i) IN
  IF code = SEMICOLON THEN [p EXCEPT !.state = EXPECT_PARAMETER_NAME]
  ELSE IF code = COMMA THEN next(p)
  ELSE IF isToken(code) THEN
    withCurrent(p, [current(p) EXCEPT !.type = @ \o <<h[p.i]>>])
  ELSE unexpected(p)

\* case State.EXPECT_COMMA_OR_SEMICOLON
expectCommaOrSemicolon(p, h) ==
  LET code == charCodeAt(h, p.i) IN
  IF isWhitespace(code) THEN p
  ELSE IF code = SEMICOLON THEN [p EXCEPT !.state = EXPECT_PARAMETER_NAME]
  ELSE IF code = COMMA THEN next(p)
  ELSE unexpected(p)

\* case State.EXPECT_PARAMETER_NAME
expectParameterName(p, h) ==
  LET code == charCodeAt(h, p.i) IN
  IF isOWS(code) THEN p
  ELSE IF isToken(code) THEN
    [p EXCEPT !.currentParameterName = <<h[p.i]>>,
              !.state = CONTINUE_PARAMETER_NAME]
  ELSE unexpected(p)

\* case State.CONTINUE_PARAMETER_NAME
continueParameterName(p, h) ==
  LET code == charCodeAt(h, p.i) IN
  IF isToken(code) THEN [p EXCEPT !.currentParameterName = @ \o <<h[p.i]>>]
  ELSE IF code = EQUALS THEN
    withCurrent([p EXCEPT !.state = EXPECT_PARAMETER_VALUE],
                [current(p) EXCEPT
                   !.parameters = setParameter(@, p.currentParameterName, <<>>)])
  ELSE unexpected(p)

\* case State.EXPECT_PARAMETER_VALUE: line 308 appends the first byte of an
\* unquoted value to currentParameterName; line 309 accepts "=".
expectParameterValue(p, h) ==
  LET code == charCodeAt(h, p.i) IN
  IF code = DOUBLE_QUOTE THEN [p EXCEPT !.state = CONTINUE_QUOTED_PARAMETER_VALUE]
  ELSE IF isToken(code) THEN
    [p EXCEPT !.state = CONTINUE_PARAMETER_VALUE,
              !.currentParameterName = @ \o <<h[p.i]>>]
  ELSE IF code = EQUALS THEN [p EXCEPT !.state = EXPECT_PARAMETER_VALUE]
  ELSE unexpected(p)

\* case State.CONTINUE_QUOTED_PARAMETER_VALUE
continueQuotedParameterValue(p, h) ==
  LET code == charCodeAt(h, p.i) IN
  IF code = DOUBLE_QUOTE THEN [p EXCEPT !.state = EXPECT_COMMA_OR_SEMICOLON]
  ELSE IF code = BACKSLASH THEN
    LET j == p.i + 1 IN
    IF j > Len(h) THEN fail([p EXCEPT !.i = j], "Unexpected terminating backslash")
    ELSE withCurrent([p EXCEPT !.i = j], [current(p) EXCEPT
           !.parameters = appendParameter(@, p.currentParameterName, h[j])])
  ELSE withCurrent(p, [current(p) EXCEPT
         !.parameters = appendParameter(@, p.currentParameterName, h[p.i])])

\* case State.CONTINUE_PARAMETER_VALUE
continueParameterValue(p, h) ==
  LET code == charCodeAt(h, p.i) IN
  IF code = SEMICOLON THEN [p EXCEPT !.state = EXPECT_PARAMETER_NAME]
  ELSE IF code = COMMA THEN next(p)
  ELSE IF isToken(code) THEN
    withCurrent(p, [current(p) EXCEPT
      !.parameters = appendParameter(@, p.currentParameterName, h[p.i])])
  ELSE unexpected(p)

\* The switch on state (lines 197-349).
dispatch(p, h) ==
  CASE p.state = EXPECT_TYPE -> expectType(p, h)
    [] p.state = CONTINUE_TYPE -> continueType(p, h)
    [] p.state = EXPECT_SUBTYPE -> expectSubtype(p, h)
    [] p.state = CONTINUE_SUBTYPE -> continueSubtype(p, h)
    [] p.state = EXPECT_COMMA_OR_SEMICOLON -> expectCommaOrSemicolon(p, h)
    [] p.state = EXPECT_PARAMETER_NAME -> expectParameterName(p, h)
    [] p.state = CONTINUE_PARAMETER_NAME -> continueParameterName(p, h)
    [] p.state = EXPECT_PARAMETER_VALUE -> expectParameterValue(p, h)
    [] p.state = CONTINUE_QUOTED_PARAMETER_VALUE -> continueQuotedParameterValue(p, h)
    [] p.state = CONTINUE_PARAMETER_VALUE -> continueParameterValue(p, h)
    [] OTHER -> fail(p, "Unhandled state")

\* i++ of the for loop, unless the body threw.
advance(p) == IF p.error # NoError THEN p ELSE [p EXCEPT !.i = @ + 1]

\* One iteration of the for loop: the switch, then i++ (also after continue).
parseStep(p, h) == advance(dispatch(p, h))

\* The for loop of lines 195-350, from the locals p on.
RECURSIVE parseLoop(_, _)
parseLoop(p, h) ==
  IF p.error # NoError \/ p.i > Len(h) THEN p ELSE parseLoop(parseStep(p, h), h)

\* Lines 351-353: the commit at the end of the input.
parseEnd(p) ==
  IF p.error = NoError /\ p.state # EXPECT_TYPE THEN next(p) ELSE p

\* score (lines 360-370).
score(accept) ==
  (IF accept.type # <<"*">> THEN 1000 ELSE 0)
  + (IF accept.subtype # <<"*">> THEN 1000000 ELSE 0)
  + Cardinality(DOMAIN accept.parameters)

\* The comparator of line 371-375: negative when a sorts before z.
compareAccepts(a, z) == score(z) - score(a)

\* A sort that is not stable: x goes ahead of the elements it compares
\* equal to.
RECURSIVE insertSortedAhead(_, _)
insertSortedAhead(sorted, x) ==
  IF sorted = <<>> THEN <<x>>
  ELSE IF compareAccepts(Head(sorted), x) < 0
       THEN <<Head(sorted)>> \o insertSortedAhead(Tail(sorted), x)
       ELSE <<x>> \o sorted

\* Array.prototype.sort is stable: x goes behind every element that does not
\* compare greater than it.
RECURSIVE insertSorted(_, _)
insertSorted(sorted, x) ==
  IF sorted = <<>> THEN <<x>>
  ELSE IF compareAccepts(Head(sorted), x) <= 0
       THEN <<Head(sorted)>> \o insertSorted(Tail(sorted), x)
       ELSE <<x>> \o sorted

RECURSIVE sortAccepts(_)
sortAccepts(accepts) ==
  IF accepts = <<>> THEN <<>>
  ELSE insertSorted(sortAccepts(SubSeq(accepts, 1, Len(accepts) - 1)),
                    accepts[Len(accepts)])

\* parseAccepts (lines 177-378): the error thrown, or the sorted ranges
\* (pushed: the same ranges before the sort of line 371).
parseResult(p) ==
  IF p.error # NoError
  THEN [error |-> p.error, accepts |-> <<>>, pushed |-> <<>>]
  ELSE [error |-> NoError, accepts |-> sortAccepts(p.accepts),
        pushed |-> p.accepts]

parseAccepts(h) == parseResult(parseEnd(parseLoop(parserInit, h)))

(***************************************************************************)
(* JavaScript values that may be undefined or null.                        *)
(***************************************************************************)
JsUndefined == [tag |-> "undefined", text |-> <<>>]
JsNull == [tag |-> "null", text |-> <<>>]
JsString(s) == [tag |-> "string", text |-> s]

\* !v for v undefined, null or a string.
falsy(v) == v.tag # "string" \/ v.text = <<>>

\* The position of the first sep in s at or after i, or Len(s) + 1.
RECURSIVE indexOfFrom(_, _, _)
indexOfFrom(s, sep, i) ==
  IF i > Len(s) \/ s[i] = sep THEN i ELSE indexOfFrom(s, sep, i + 1)

\* String.prototype.split(sep) for a one-character separator.
RECURSIVE split(_, _)
split(s, sep) ==
  LET k == indexOfFrom(s, sep, 1) IN
  IF k > Len(s) THEN <<s>>
  ELSE <<SubSeq(s, 1, k - 1)>> \o split(SubSeq(s, k + 1, Len(s)), sep)

\* Destructuring [a, b] = parts: a missing element is undefined.
element(parts, k) == IF k <= Len(parts) THEN JsString(parts[k]) ELSE JsUndefined

\* The loop of lines 16-19 over params[k..]: later keys overwrite.
RECURSIVE digestParameters(_, _)
digestParameters(params, k) ==
  IF k = 0 THEN NoParameters
  ELSE LET kv == split(params[k], "=")
       IN setParameter(digestParameters(params, k - 1), kv[1], element(kv, 2))

\* The callback of mediaTypes.map (lines 10-29).
typeDigest(t) ==
  LET parts == split(t, ";")
      spec == split(parts[1], "/")
  IN [type |-> element(spec, 1),
      subtype |-> element(spec, 2),
      parameters |-> digestParameters(Tail(parts), Len(parts) - 1),
      q |-> One,
      originalType |-> t]

typeDigests(types) == [k \in 1..Len(types) |-> typeDigest(types[k])]

\* matchesParameters (lines 69-79): given[key] of a missing key is undefined.
matchesParameters(required, given) ==
  \A key \in DOMAIN required :
    (IF key \in DOMAIN given THEN given[key] ELSE JsUndefined) = JsString(required[key])

\* specs.find's callback without the subtype wildcard of line 51.
specMatchesExactSubtype(spec, digest) ==
  \/ spec.type = <<"*">>
  \/ /\ JsString(spec.type) = digest.type
     /\ JsString(spec.subtype) = digest.subtype
     /\ matchesParameters(spec.parameters, digest.parameters)

\* The callback of specs.find (lines 47-55).
specMatches(spec, digest) ==
  \/ spec.type = <<"*">>
  \/ /\ JsString(spec.type) = digest.type
     /\ \/ spec.subtype = <<"*">>
        \/ /\ JsString(spec.subtype) = digest.subtype
           /\ matchesParameters(spec.parameters, digest.parameters)

\* Lines 47-55 taking, of the matching specs, the first of greatest q.
findSpecOfGreatestQ(specs, digest) ==
  IF \E k \in 1..Len(specs) : specMatches(specs[k], digest)
  THEN CHOOSE k \in 1..Len(specs) :
         /\ specMatches(specs[k], digest)
         /\ \A j \in 1..Len(specs) :
              specMatches(specs[j], digest)
                => /\ ~Gt(specs[j].q, specs[k].q)
                   /\ (j < k => Lt(specs[j].q, specs[k].q))
  ELSE 0

\* specs.find: the index of the first matching spec, 0 for undefined.
findSpec(specs, digest) ==
  IF \E k \in 1..Len(specs) : specMatches(specs[k], digest)
  THEN CHOOSE k \in 1..Len(specs) :
         /\ specMatches(specs[k], digest)
         /\ \A j \in 1..(k - 1) : ~specMatches(specs[j], digest)
  ELSE 0

\* Line 57 without its !bestMediaType: only a greater q replaces the best.
replacesBestStrict(best, q) == Gt(q, best.bestQ)

\* Line 57 with >= for >: an equal q replaces the best.
replacesBestOrEqual(best, q) ==
  falsy(best.bestMediaType) \/ Gt(q, best.bestQ) \/ NumEq(q, best.bestQ)

\* Line 57: whether a digest whose first matching spec has quality q
\* replaces the best so far.
replacesBest(best, q) == falsy(best.bestMediaType) \/ Gt(q, best.bestQ)

\* The loop of lines 44-62 after the first k digests.
RECURSIVE bestAfter(_, _, _)
bestAfter(specs, digests, k) ==
  IF k = 0 THEN [bestQ |-> Zero, bestMediaType |-> JsNull]
  ELSE LET best == bestAfter(specs, digests, k - 1)
           m == findSpec(specs, digests[k])
       IN IF m # 0 /\ replacesBest(best, specs[m].q)
          THEN [bestQ |-> specs[m].q,
                bestMediaType |-> JsString(digests[k].originalType)]
          ELSE best

bestMediaType(specs, types) ==
  bestAfter(specs, typeDigests(types), Len(types)).bestMediaType

(***************************************************************************)
(* The LRU of @graphile/lru: a sequence of entries, most recently used     *)
(* first.  The matcher builds it with maxLength 50 (line 30); where every  *)
(* order of calls is explored the model builds it with CacheBound, small   *)
(* enough for evictions to happen.                                         *)
(***************************************************************************)
CacheBound == 2

\* new LRU({ maxLength: 50 })
MaxLength == 50

lruIndex(l, key) ==
  IF \E k \in 1..Len(l) : l[k].key = key
  THEN CHOOSE k \in 1..Len(l) : l[k].key = key
  ELSE 0

lruKeys(l) == {l[k].key : k \in 1..Len(l)}

without(l, k) == SubSeq(l, 1, k - 1) \o SubSeq(l, k + 1, Len(l))

\* get: the stored value, or undefined for a key with no entry.
lruValue(l, key) ==
  IF lruIndex(l, key) = 0 THEN JsUndefined ELSE l[lruIndex(l, key)].value

\* get: a hit makes the entry the most recently used; a miss changes nothing.
lruAfterGet(l, key) ==
  LET k == lruIndex(l, key) IN
  IF k = 0 THEN l ELSE <<l[k]>> \o without(l, k)

\* set: the entry becomes the most recently used; an insertion beyond the
\* bound drops the least recently used entry.
lruAfterSet(l, key, value) ==
  LET k == lruIndex(l, key)
      entry == [key |-> key, value |-> value]
  IN IF k # 0 THEN <<entry>> \o without(l, k)
     ELSE LET grown == <<entry>> \o l
          IN IF Len(grown) > maxLength THEN SubSeq(grown, 1, maxLength) ELSE grown

(***************************************************************************)
(* preferredAccept (lines 31-66).  The result holds what the call returns  *)
(* or throws, the cache after it, and whether it ran parseAccepts and      *)
(* lru.set.                                                                *)
(***************************************************************************)
returned(v) == [threw |-> FALSE, value |-> v, error |-> NoError]
thrown(msg) == [threw |-> TRUE, value |-> JsUndefined, error |-> msg]

\* Line 35 answering with the last media type.
absentDefaultLast(types) == element(types, Len(types))

\* Line 35: the answer to an absent header.
absentDefault(types) == element(types, 1)

\* Line 63 storing the first media type some spec matches, not the best.
storedFirstMatch(specs, types) ==
  LET digests == typeDigests(types)
      matched == {k \in 1..Len(types) : findSpec(specs, digests[k]) # 0}
  IN IF matched = {} THEN JsNull
     ELSE JsString(types[CHOOSE k \in matched : \A j \in matched : k <= j])

\* Line 63: the value stored under the header.
storedValue(specs, types) == bestMediaType(specs, types)

\* Line 38 as `if (existing)`: a stored null does not count as a hit.
isHitTruthy(existing) == ~falsy(existing)

\* Line 38: whether the value lru.get returned counts as a cache hit.
isHit(existing) == existing # JsUndefined

\* Lines 34-36: the call with an absent header.
absent(types, l) ==
  [outcome |-> returned(absentDefault(types)), lru |-> l,
   parsed |-> FALSE, specs |-> <<>>, pushed |-> <<>>,
   inserted |-> FALSE]

\* Lines 37-39 reading the entry without lru.get's marking it as used.
hitUnmarked(l, key) ==
  [outcome |-> returned(lruValue(l, key)), lru |-> l,
   parsed |-> FALSE, specs |-> <<>>, pushed |-> <<>>,
   inserted |-> FALSE]

\* Lines 38-39: the call that finds the header in the cache.
hit(l, key) ==
  [outcome |-> returned(lruValue(l, key)), lru |-> lruAfterGet(l, key),
   parsed |-> FALSE, specs |-> <<>>, pushed |-> <<>>,
   inserted |-> FALSE]

\* Lines 41-64 storing null under a header that fails to parse.
missCachesFailure(types, l, key, result) ==
  IF result.error # NoError
  THEN [outcome |-> thrown(result.error), lru |-> lruAfterSet(l, key, JsNull),
        parsed |-> TRUE, specs |-> <<>>, pushed |-> <<>>,
        inserted |-> TRUE]
  ELSE [outcome |-> returned(bestMediaType(result.accepts, types)),
        lru |-> lruAfterSet(l, key, storedValue(result.accepts, types)),
        parsed |-> TRUE, specs |-> result.accepts,
        pushed |-> result.pushed, inserted |-> TRUE]

\* Lines 41-64: the call that misses, l being the cache after lru.get and
\* result what parseAccepts gave.
miss(types, l, key, result) ==
  IF result.error # NoError
  THEN [outcome |-> thrown(result.error), lru |-> l,
        parsed |-> TRUE, specs |-> <<>>, pushed |-> <<>>,
        inserted |-> FALSE]
  ELSE [outcome |-> returned(bestMediaType(result.accepts, types)),
        lru |-> lruAfterSet(l, key, storedValue(result.accepts, types)),
        parsed |-> TRUE, specs |-> result.accepts,
        pushed |-> result.pushed, inserted |-> TRUE]

\* Line 34 as `if (!acceptHeader)`: the empty string counts as absent.
preferredAcceptFalsyAbsent(types, l, header) ==
  IF falsy(header) THEN absent(types, l)
  ELSE IF isHit(lruValue(l, header.text)) THEN hit(l, header.text)
  ELSE miss(types, lruAfterGet(l, header.text), header.text,
            parseAccepts(header.text))

preferredAccept(types, l, header) ==
  IF header = JsUndefined THEN absent(types, l)
  ELSE IF isHit(lruValue(l, header.text)) THEN hit(l, header.text)
  ELSE miss(types, lruAfterGet(l, header.text), header.text,
            parseAccepts(header.text))

(***************************************************************************)
(* Media types and header texts.                                           *)
(***************************************************************************)
ApplicationJson ==
  <<"a", "p", "p", "l", "i", "c", "a", "t", "i", "o", "n", "/", "j", "s", "o", "n">>
ApplicationGraphqlResponseJson ==
  <<"a", "p", "p", "l", "i", "c", "a", "t", "i", "o", "n", "/", "g", "r", "a", "p",
    "h", "q", "l", "-", "r", "e", "s", "p", "o", "n", "s", "e", "+", "j", "s", "o",
    "n">>
TextHtml == <<"t", "e", "x", "t", "/", "h", "t", "m", "l">>
ApplicationXml ==
  <<"a", "p", "p", "l", "i", "c", "a", "t", "i", "o", "n", "/", "x", "m", "l">>
ApplicationAny == <<"a", "p", "p", "l", "i", "c", "a", "t", "i", "o", "n", "/", "*">>
AnyAny == <<"*", "/", "*">>
AB == <<"a", "/", "b">>
CD == <<"c", "/", "d">>
AAny == <<"a", "/", "*">>
ABKV == <<"a", "/", "b", ";", "k", "=", "v">>
QToken09 == <<";", "q", "=", "0", ".", "9">>
QToken08 == <<";", "q", "=", "0", ".", "8">>
QToken05 == <<";", "q", "=", "0", ".", "5">>
QQuoted09 == <<";", "q", "=", "\"", "0", ".", "9", "\"">>
QQuoted05 == <<";", "q", "=", "\"", "0", ".", "5", "\"">>
QQuoted0 == <<";", "q", "=", "\"", "0", "\"">>
QQuoted2 == <<";", "q", "=", "\"", "2", "\"">>
KVToken == <<";", "k", "=", "v">>
KVQuoted == <<";", "k", "=", "\"", "v", "\"">>
CommaSpace == <<",", " ">>
NotAValidHeader ==
  <<"n", "o", "t", " ", "a", " ", "v", "a", "l", "i", "d", " ", "h", "e", "a", "d",
    "e", "r", "!", "!", "!">>

\* The lists of media types a matcher is made with: those of grafserv's
\* scenarios and short ones whose subtype is one character.
ServerLists ==
  { <<ApplicationJson, ApplicationGraphqlResponseJson, TextHtml>>,
    <<ApplicationJson, TextHtml>>,
    <<ApplicationJson>>,
    <<AB, CD>>,
    <<CD, AB>>,
    <<AB, ABKV>> }

\* One media range with its parameters, as written in a header.
Elements ==
  { TextHtml, TextHtml \o QToken09, ApplicationJson \o QToken08,
    ApplicationJson \o QToken05, ApplicationGraphqlResponseJson \o QToken05,
    ApplicationXml, ApplicationAny, AnyAny,
    AnyAny \o QQuoted05, AAny, AB, CD,
    AB \o QQuoted05, AB \o QQuoted0, CD \o QQuoted05, CD \o QQuoted09,
    AB \o QToken08, CD \o QToken09, AB \o KVToken, AB \o KVQuoted }

\* The most ranges a header of the model lists.
MaxRanges == 2

\* The headers listing n elements, separated by ", ".
RECURSIVE Listing(_)
Listing(n) ==
  IF n = 1 THEN Elements
  ELSE {h \o CommaSpace \o e : h \in Listing(n - 1), e \in Elements}

\* Headers no range comes out of: empty, malformed, q out of range.
EdgeHeaders == {<<>>, NotAValidHeader, AB \o QQuoted2}

Headers == EdgeHeaders \cup UNION {Listing(n) : n \in 1..MaxRanges}

\* The headers of the calls made on one matcher in sequence.
CacheHeaders ==
  { AB, AnyAny, ApplicationXml, AB \o QQuoted05 \o CommaSpace \o CD \o QQuoted09,
    AB \o QQuoted2, NotAValidHeader }

CacheServerLists == {<<AB, CD>>, <<ApplicationJson, TextHtml>>}

(***************************************************************************)
(* The matcher as a state machine.                                         *)
(***************************************************************************)
NoOutcome == returned(JsUndefined)

\* makeAcceptMatcher(types) with an LRU of bound n.
MadeWith(types, n) ==
  /\ mediaTypes = types
  /\ lru = <<>>
  /\ maxLength = n
  /\ called = FALSE
  /\ acceptHeader = JsUndefined
  /\ outcome = NoOutcome
  /\ parsed = FALSE
  /\ parsedSpecs = <<>>
  /\ committed = <<>>
  /\ inserted = FALSE
  /\ firstOutcome = [h \in {} |-> NoOutcome]
  /\ repeated = FALSE
  /\ recency = <<>>
  /\ locals = parserInit

Made(types) == MadeWith(types, CacheBound)

\* makeAcceptMatcher(types)
Init == \E types \in CacheServerLists : Made(types)

\* The matcher and the record of its calls once preferredAccept(header)
\* has ended with the result r.
Completed(header, r) ==
  /\ lru' = r.lru
  /\ called' = TRUE
  /\ acceptHeader' = header
  /\ outcome' = r.outcome
  /\ parsed' = r.parsed
  /\ parsedSpecs' = r.specs
  /\ committed' = r.pushed
  /\ inserted' = r.inserted
  /\ repeated' = (header \in DOMAIN firstOutcome)
  /\ firstOutcome' =
       IF header \in DOMAIN firstOutcome THEN firstOutcome
       ELSE [h \in (DOMAIN firstOutcome) \cup {header} |->
               IF h = header THEN r.outcome ELSE firstOutcome[h]]
  /\ recency' = IF r.inserted \/ (header # JsUndefined /\ ~r.parsed)
                THEN <<header.text>> \o SelectSeq(recency, LAMBDA k : k # header.text)
                ELSE recency
  /\ UNCHANGED <<mediaTypes, maxLength>>

\* One call preferredAccept(header) on the matcher.
Call(header) ==
  /\ \E r \in {preferredAccept(mediaTypes, lru, header)} : Completed(header, r)
  /\ UNCHANGED locals

SelectAbsent == Call(JsUndefined)

Select == \E h \in CacheHeaders : Call(JsString(h))

Next == SelectAbsent \/ Select

Spec == Init /\ [][Next]_vars

(***************************************************************************)
(* The parser over header texts built from pieces: a media range, then     *)
(* parameters each behind a semicolon, then further elements each behind   *)
(* a comma.  The token-only pieces follow RFC 9110 (12.5.1, 5.6.1, 5.6.6): *)
(* type "/" subtype, *( OWS ";" OWS parameter ), elements joined by        *)
(* OWS "," OWS.  The other pieces are quoted values and texts that stop    *)
(* or go wrong part-way.                                                   *)
(***************************************************************************)
TokenRanges == {AB, <<"a", "b", "/", "c", "d">>, AAny, AnyAny}

RangeTexts ==
  TokenRanges
    \cup { <<"a">>, <<"a", "/">>, <<"*">>, <<"*", "/">>, <<"*", "/", "x">>,
           <<"a", "/", "b", "/", "c">> }

TokenParameters ==
  { <<"k", "=", "v">>, <<"k", "k", "=", "v", "v">>, <<"q", "=", "0", ".", "5">> }

ParameterTexts ==
  TokenParameters
    \cup { <<"q", "=", "\"", "0", ".", "5", "\"">>, <<"q", "=", "\"", "\"">>,
           <<"q", "=">>, <<"q", "=", "2">>, <<"q", "=", "\"", "2", "\"">>,
           <<"q", "=", "x">>, <<"q", "=", "\"", "x", "\"">>,
           <<"k", "=", "\"", "v", "\"">>, <<"c", "=", "=", "d">> }

ParameterSeparators == { <<";">>, <<";", " ">>, <<" ", ";">> }

ListSeparators == { <<",">>, <<",", " ">>, <<" ", ",">> }

\* The most parameters a range of the parser's headers carries.
MaxParameters == 1

Extended(texts, separators, pieces) ==
  texts \cup {t \o s \o x : t \in texts, s \in separators, x \in pieces}

\* The ranges followed by at most n of the parameters.
RECURSIVE WithParameters(_, _, _)
WithParameters(ranges, parameters, n) ==
  IF n = 0 THEN ranges
  ELSE Extended(WithParameters(ranges, parameters, n - 1),
                ParameterSeparators, parameters)

\* The headers listing at least two and at most n of the elements.
RECURSIVE Lists(_, _)
Lists(elements, n) ==
  IF n < 2 THEN {}
  ELSE {a \o s \o z : a \in elements, s \in ListSeparators, z \in elements}
         \cup {h \o s \o z : h \in Lists(elements, n - 1),
                                s \in ListSeparators, z \in elements}

TokenListElements == {AB, CD, AAny, AnyAny, CD \o QToken05}

ListElements == TokenListElements \cup {AB \o KVQuoted, AB \o QQuoted05}

\* The headers RFC 9110 lets a client send that hold no quoted string.
TokenHeaders ==
  WithParameters(TokenRanges, TokenParameters, MaxParameters)
    \cup Lists(TokenListElements, MaxRanges)

\* Three ranges the sort has to reorder, two of them of equal score.
WildcardFirst == AnyAny \o <<",">> \o AB \o QQuoted05 \o <<",">> \o CD

ParseHeaders ==
  {<<>>, <<" ">>, <<" ", "\t">>, NotAValidHeader, WildcardFirst}
    \cup WithParameters(RangeTexts, ParameterTexts, MaxParameters)
    \cup Lists(ListElements, MaxRanges)

InitParse == Made(<<AB, CD>>)

ParseOnce == ~called /\ \E h \in ParseHeaders : Call(JsString(h))

SpecParse == InitParse /\ [][ParseOnce]_vars

(***************************************************************************)
(* One call on a fresh matcher followed through parseAccepts: the call     *)
(* misses the empty cache and enters the parser, the loop runs one         *)
(* iteration at a time, and the rest of the call follows the loop.         *)
(***************************************************************************)
InitStep == Made(<<AB, CD>>)

\* The call is inside the loop of parseAccepts.
parsing == parsed /\ ~called

\* Lines 32-41 and 177-181: the miss, up to the loop.
Enter ==
  /\ ~parsed
  /\ ~called
  /\ \E h \in ParseHeaders : acceptHeader' = JsString(h)
  /\ parsed' = TRUE
  /\ locals' = parserInit
  /\ UNCHANGED <<mediaTypes, lru, maxLength, called, outcome, parsedSpecs,
                 committed, inserted, firstOutcome, repeated, recency>>

\* One iteration of the loop.
Step ==
  /\ parsing
  /\ locals.error = NoError
  /\ locals.i <= Len(acceptHeader.text)
  /\ locals' = parseStep(locals, acceptHeader.text)
  /\ UNCHANGED <<mediaTypes, lru, maxLength, called, acceptHeader, outcome,
                 parsed, parsedSpecs, committed, inserted, firstOutcome,
                 repeated, recency>>

\* Lines 351-377 and 42-65: the commit at the end, the sort, the choice.
Leave ==
  /\ parsing
  /\ locals.error # NoError \/ locals.i > Len(acceptHeader.text)
  /\ locals' = parseEnd(locals)
  /\ \E r \in {miss(mediaTypes, lruAfterGet(lru, acceptHeader.text),
                    acceptHeader.text, parseResult(parseEnd(locals)))} :
       Completed(acceptHeader, r)

NextStep == Enter \/ Step \/ Leave

SpecStep == InitStep /\ [][NextStep]_vars

(***************************************************************************)
(* The sort of lines 354-375 over the two ranges a header's loop pushed.   *)
(* A range is given by its type, its subtype and its parameters, which     *)
(* are what score reads; ";0000=1;0001=1;..." gives a range one parameter  *)
(* a name, so a header of some 7000 bytes gives it MaxScoreParameters.     *)
(***************************************************************************)
\* The most parameters a range of the sort's inputs carries.
MaxScoreParameters == 1000

Digit(d) == Printable[17 + d]

NumberedName(i) ==
  <<Digit((i \div 1000) % 10), Digit((i \div 100) % 10),
    Digit((i \div 10) % 10), Digit(i % 10)>>

NumberedParameters(n) == [k \in {NumberedName(i) : i \in 0..(n - 1)} |-> <<>>]

ScoreParameters ==
  { NoParameters,
    [k \in {<<"k">>} |-> <<>>],
    [k \in {<<"j">>} |-> <<>>],
    [k \in {<<"k">>, <<"j">>} |-> <<>>],
    NumberedParameters(MaxScoreParameters - 1),
    NumberedParameters(MaxScoreParameters) }

ScoreRanges ==
  { [type |-> t, subtype |-> u, q |-> One, parameters |-> ps] :
      t \in {<<"*">>, <<"a">>}, u \in {<<"*">>, <<"b">>}, ps \in ScoreParameters }

InitScore == Made(<<AB, CD>>)

\* Lines 354-377 of a parseAccepts call whose loop pushed a, then z.
SortPushed ==
  /\ ~called
  /\ \E a \in ScoreRanges, z \in ScoreRanges :
       /\ committed' = <<a, z>>
       /\ parsedSpecs' = sortAccepts(<<a, z>>)
  /\ called' = TRUE
  /\ parsed' = TRUE
  /\ UNCHANGED <<mediaTypes, lru, maxLength, acceptHeader, outcome, inserted,
                 firstOutcome, repeated, recency, locals>>

SpecScore == InitScore /\ [][SortPushed]_vars

\* A matcher with the cache of line 30, given one header after another
\* until the cache is full, then headers it holds and headers it has not
\* seen.  FillHeader(n) is a/b after n spaces.
RECURSIVE Spaces(_)
Spaces(n) == IF n = 0 THEN <<>> ELSE <<" ">> \o Spaces(n - 1)

FillHeader(n) == Spaces(n) \o AB

\* The headers not seen while the cache filled.
FreshHeaders == 2

ProbeHeaders ==
  {FillHeader(0), FillHeader(1)}
    \cup {FillHeader(maxLength + n) : n \in 0..(FreshHeaders - 1)}

InitLru == MadeWith(<<AB, CD>>, MaxLength)

Fill == Len(recency) < maxLength /\ Call(JsString(FillHeader(Len(recency))))

Probe == Len(recency) >= maxLength /\ \E h \in ProbeHeaders : Call(JsString(h))

NextLru == Fill \/ Probe

SpecLru == InitLru /\ [][NextLru]_vars

\* One call on a fresh matcher, over all lists and headers.
InitMatch == \E types \in ServerLists : Made(types)

SelectOnce == ~called /\ \E h \in Headers : Call(JsString(h))

SpecMatch == InitMatch /\ [][SelectOnce]_vars

(***************************************************************************)
(* Properties.                                                             *)
(***************************************************************************)
digests == typeDigests(mediaTypes)

registered(t) == \E k \in 1..Len(mediaTypes) : mediaTypes[k] = t

\* t is type/subtype with both parts non-empty and no parameters.
plainType(t) ==
  /\ Len(split(t, ";")) = 1
  /\ Len(split(t, "/")) = 2
  /\ split(t, "/")[1] # <<>>
  /\ split(t, "/")[2] # <<>>

\* The last call was given a header and returned.
answered == called /\ acceptHeader.tag = "string" /\ ~outcome.threw

\* The media types some range of the last call matches, by index.
matchedTypes ==
  {k \in 1..Len(mediaTypes) : findSpec(parsedSpecs, digests[k]) # 0}

\* The q of the first range matching media type k.
matchQ(k) == parsedSpecs[findSpec(parsedSpecs, digests[k])].q

firstOf(S) == CHOOSE k \in S : \A j \in S : k <= j

\* C1: a header that is exactly a registered plain type/subtype string
\* selects that string.
C1_ExactHeaderSelected ==
  (called /\ acceptHeader.tag = "string"
     /\ registered(acceptHeader.text) /\ plainType(acceptHeader.text))
  => outcome = returned(acceptHeader)

QTokens == {<<"0", ".", "9">>, <<"0", ".", "8">>, <<"0", ".", "5">>}

withQ(t, q) == t \o <<";", "q", "=">> \o q

\* C2: a header `T1;q=x, T2;q=y` of two registered types with x > y written
\* as tokens selects T1, wherever T1 is registered.
C2_HigherQWins ==
  \A i, j \in 1..Len(mediaTypes) : \A x, y \in QTokens :
    (/\ called
     /\ i # j
     /\ plainType(mediaTypes[i]) /\ plainType(mediaTypes[j])
     /\ Gt(parseFloat(x), parseFloat(y))
     /\ acceptHeader
          = JsString(withQ(mediaTypes[i], x) \o CommaSpace \o withQ(mediaTypes[j], y)))
    => outcome = returned(JsString(mediaTypes[i]))

\* C3: when several media types are matched and their matching ranges all
\* carry the same q, the earliest registered of them is selected.
C3_TieEarliestRegistered ==
  (/\ answered /\ parsed
   /\ Cardinality(matchedTypes) >= 2
   /\ \A a, b \in matchedTypes : NumEq(matchQ(a), matchQ(b)))
  => outcome = returned(JsString(mediaTypes[firstOf(matchedTypes)]))

\* Two listed types with the same explicit q, the one registered first
\* listed second.
C3_Witness ==
  /\ answered /\ parsed
  /\ Cardinality(matchedTypes) >= 2
  /\ \A a, b \in matchedTypes : NumEq(matchQ(a), matchQ(b)) /\ ~NumEq(matchQ(a), One)
  /\ Len(parsedSpecs) = 2
  /\ findSpec(parsedSpecs, digests[1]) = 2
  /\ findSpec(parsedSpecs, digests[2]) = 1
  /\ outcome = returned(JsString(mediaTypes[1]))

\* C4: an absent header selects the first registered media type, whatever
\* the calls made before.
C4_AbsentReturnsFirst ==
  (called /\ acceptHeader = JsUndefined)
  => outcome = returned(JsString(mediaTypes[1]))

C4_Witness ==
  /\ called /\ acceptHeader = JsUndefined
  /\ Len(lru) = CacheBound
  /\ Len(mediaTypes) >= 2
  /\ outcome = returned(JsString(mediaTypes[1]))

\* C5: for a header that parses, the result is null exactly when no range
\* matches any media type, and is otherwise one of the registered strings.
C5_NullIffNoMatch ==
  (answered /\ parsed)
  => /\ (outcome.value = JsNull) <=> (matchedTypes = {})
     /\ outcome.value # JsNull
          => outcome.value.tag = "string" /\ registered(outcome.value.text)

\* A range of q 0 is the only match: its media type is still the result.
C5_Witness ==
  /\ answered /\ parsed
  /\ Cardinality(matchedTypes) = 1
  /\ \A k \in matchedTypes : NumEq(matchQ(k), Zero)
  /\ outcome.value.tag = "string"

\* C6: a header that is exactly a registered `t/s;k=v` selects it.
C6_ParameterRangeSelects ==
  \A k \in 1..Len(mediaTypes) :
    (/\ called
     /\ Len(split(mediaTypes[k], ";")) = 2
     /\ Len(split(split(mediaTypes[k], ";")[2], "=")) = 2
     /\ acceptHeader = JsString(mediaTypes[k]))
    => outcome = returned(JsString(mediaTypes[k]))

\* h is `t/*` with t a single type name, or `*/*`.
subtypeWildcard(h) ==
  /\ Len(h) >= 3
  /\ h[Len(h)] = "*"
  /\ h[Len(h) - 1] = "/"
  /\ \A i \in 1..(Len(h) - 2) : isToken(charCode(h[i])) /\ h[i] # "/"

wildcardType(h) == SubSeq(h, 1, Len(h) - 2)

\* The media types of type t, all of them for t = "*".
typesOfType(t) ==
  {k \in 1..Len(mediaTypes) : t = <<"*">> \/ digests[k].type = JsString(t)}

\* C7: a parsed range t/* matches every media type of type t and */* every
\* media type; a header that is only t/* selects the first media type of
\* type t.
C7_SubtypeWildcard ==
  /\ (answered /\ parsed) =>
       \A j \in 1..Len(parsedSpecs) : \A k \in 1..Len(mediaTypes) :
         (/\ parsedSpecs[j].subtype = <<"*">>
          /\ k \in typesOfType(parsedSpecs[j].type))
         => findSpec(parsedSpecs, digests[k]) # 0
  /\ (called /\ acceptHeader.tag = "string" /\ subtypeWildcard(acceptHeader.text)) =>
       LET S == typesOfType(wildcardType(acceptHeader.text)) IN
       outcome = returned(IF S = {} THEN JsNull ELSE JsString(mediaTypes[firstOf(S)]))

\* `t/*` alone, t not "*", with a media type of another type registered
\* before the one selected.
C7_Witness ==
  /\ called /\ acceptHeader.tag = "string"
  /\ subtypeWildcard(acceptHeader.text)
  /\ wildcardType(acceptHeader.text) # <<"*">>
  /\ typesOfType(wildcardType(acceptHeader.text)) # {}
  /\ Len(digests[firstOf(typesOfType(wildcardType(acceptHeader.text)))].subtype.text) > 1
  /\ outcome.value.tag = "string"

\* C8: every call with a header has the outcome of the first call with it.
C8_CacheTransparent ==
  called => /\ acceptHeader \in DOMAIN firstOutcome
            /\ outcome = firstOutcome[acceptHeader]

\* A header asked again after its entry was evicted: it is parsed again.
C8_Witness ==
  /\ answered /\ repeated /\ parsed
  /\ outcome = firstOutcome[acceptHeader]

\* C9: a call whose header fails to parse throws and leaves the cache as it
\* was.
C9_ErrorLeavesCache ==
  [][(acceptHeader'.tag = "string"
        /\ parseAccepts(acceptHeader'.text).error # NoError)
     => (outcome'.threw /\ lru' = lru)]_vars

C9_Witness ==
  /\ called /\ outcome.threw
  /\ Len(lru) = CacheBound
  /\ acceptHeader.text \notin lruKeys(lru)

lruEntries(l) == {l[k] : k \in 1..Len(l)}

\* C10: a call with a header that has a cache entry returns the stored
\* value, null included, without parsing and without a change of the
\* entries.
C10_HitReturnsStored ==
  [][\A h \in lruKeys(lru) :
       acceptHeader' = JsString(h)
       => /\ outcome' = returned(lruValue(lru, h))
          /\ ~parsed'
          /\ ~inserted'
          /\ lruEntries(lru') = lruEntries(lru)]_vars

\* A hit on a stored null.
C10_Witness ==
  /\ answered /\ ~parsed /\ ~inserted
  /\ outcome.value = JsNull
  /\ lruValue(lru, acceptHeader.text) = JsNull

\* The cached header whose last use, a hit or an insertion, is the oldest.
leastRecentlyUsed ==
  recency[CHOOSE k \in 1..Len(recency) :
            /\ recency[k] \in lruKeys(lru)
            /\ \A j \in (k + 1)..Len(recency) : recency[j] \notin lruKeys(lru)]

\* C11: the cache never holds more than 50 entries, and a call that stores
\* a header into a cache of 50 entries removes exactly the entry whose last
\* use is the oldest, a use being a hit or an insertion.
C11_BoundedLeastRecentlyUsed ==
  [][/\ Len(lru') <= 50
     /\ (inserted' /\ Len(lru) = 50 /\ acceptHeader'.text \notin lruKeys(lru))
          => lruKeys(lru') =
               (lruKeys(lru) \ {leastRecentlyUsed}) \cup {acceptHeader'.text}]_vars

\* A header not seen before was stored into the full cache and took the
\* place of the second header stored, the first having been hit since.
C11_Witness ==
  /\ inserted
  /\ Len(lru) = 50
  /\ acceptHeader = JsString(FillHeader(50))
  /\ FillHeader(0) \in lruKeys(lru)
  /\ FillHeader(1) \notin lruKeys(lru)

\* The codes of RFC 9110's tchar (5.6.2): "!#$%&'*+-.^_`|~", DIGIT, ALPHA.
TokenCodes ==
  {33, 35, 36, 37, 38, 39, 42, 43, 45, 46, 94, 95, 96, 124, 126}
    \cup (48..57) \cup (65..90) \cup (97..122)

\* s is a token: one or more tchar.
tokenText(s) == s # <<>> /\ \A k \in 1..Len(s) : charCode(s[k]) \in TokenCodes

wildcardOrToken(s) == s = <<"*">> \/ tokenText(s)

\* C12: every range parseAccepts returns has a type that is * or a
\* non-empty token, a subtype that is * or a non-empty token, and the
\* subtype * whenever its type is *.
C12_RangesWellFormed ==
  \A k \in 1..Len(parsedSpecs) :
    /\ wildcardOrToken(parsedSpecs[k].type)
    /\ wildcardOrToken(parsedSpecs[k].subtype)
    /\ parsedSpecs[k].type = <<"*">> => parsedSpecs[k].subtype = <<"*">>

\* C13: no range parseAccepts returns keeps a parameter named q, however
\* the header wrote it.
C13_NoQParameter ==
  \A k \in 1..Len(parsedSpecs) : Q \notin DOMAIN parsedSpecs[k].parameters

\* The value a parameter text name=value or name="value" writes.
writtenValue(parameter) ==
  LET v == SubSeq(parameter, indexOfFrom(parameter, "=", 1) + 1, Len(parameter))
  IN IF Len(v) >= 2 /\ v[1] = "\"" /\ v[Len(v)] = "\""
     THEN SubSeq(v, 2, Len(v) - 1)
     ELSE v

writesQ(parameter) == SubSeq(parameter, 1, 2) = <<"q", "=">>

\* text read as a number is NaN or lies outside [0, 1].
outOfRange(text) ==
  parseFloat(text).nan \/ Lt(parseFloat(text), Zero) \/ Gt(parseFloat(text), One)

\* C14: a header whose q is not a number, or is a number outside [0, 1],
\* is rejected with "q out of range", whether the q is quoted or not.
C14_BadQRejected ==
  \A r \in TokenRanges, x \in ParameterTexts :
    (/\ called
     /\ acceptHeader = JsString(r \o <<";">> \o x)
     /\ writesQ(x)
     /\ writtenValue(x) # <<>>
     /\ outOfRange(writtenValue(x)))
      => outcome.threw /\ outcome.error = "q out of range"

\* s without the whitespace it starts with.
RECURSIVE trimStart(_)
trimStart(s) ==
  IF s # <<>> /\ isWhitespace(charCode(s[1])) THEN trimStart(Tail(s)) ELSE s

\* The text of one list element writes a parameter named q.
hasQParameter(elementText) ==
  \E k \in 2..Len(split(elementText, ";")) :
    writesQ(trimStart(split(elementText, ";")[k]))

\* The elements of the last header, when each gave one range.
elementTexts ==
  IF called /\ acceptHeader.tag = "string"
        /\ Len(split(acceptHeader.text, ",")) = Len(committed)
  THEN split(acceptHeader.text, ",")
  ELSE <<>>

\* C15: a range whose text in the header writes no q parameter has q = 1.
C15_DefaultQ ==
  \A k \in 1..Len(elementTexts) :
    ~hasQParameter(elementTexts[k]) => NumEq(committed[k].q, One)

\* Two ranges came out of one header, the first with the q it wrote, the
\* second, which wrote none, with 1.
C15_Witness ==
  /\ Len(elementTexts) = 2
  /\ hasQParameter(elementTexts[1])
  /\ ~hasQParameter(elementTexts[2])
  /\ NumEq(committed[1].q, Num(1, 2))
  /\ NumEq(committed[2].q, One)

\* C16: a header made of tokens, "/", ";", "=", "," and optional
\* whitespace in the order the Accept grammar gives them is parsed without
\* an error into at least one range.
C16_TokenHeadersParse ==
  (called /\ acceptHeader.tag = "string" /\ acceptHeader.text \in TokenHeaders)
    => ~outcome.threw /\ Len(parsedSpecs) >= 1

\* The components of a range that are not *.
components(r) ==
  {c \in {"type", "subtype"} :
     (IF c = "type" THEN r.type ELSE r.subtype) # <<"*">>}

\* a's parameters are those of z and more.
strictSuperset(a, z) ==
  /\ DOMAIN z.parameters \subseteq DOMAIN a.parameters
  /\ DOMAIN z.parameters # DOMAIN a.parameters
  /\ \A k \in DOMAIN z.parameters : a.parameters[k] = z.parameters[k]

moreSpecific(a, z) ==
  \/ Cardinality(components(a)) > Cardinality(components(z))
  \/ components(a) = components(z) /\ strictSuperset(a, z)

\* C17: of two ranges the more specific one, which has more components
\* other than * or the same components and more parameters, has the
\* greater score and comes first in the sorted list.
C17_MoreSpecificFirst ==
  \A i \in 1..Len(committed), j \in 1..Len(committed) :
    moreSpecific(committed[i], committed[j])
      => /\ score(committed[i]) > score(committed[j])
         /\ parsedSpecs = <<committed[i], committed[j]>>

\* C18: CONTINUE_SUBTYPE appends token bytes to the subtype and leaves the
\* type alone, so a header T/S of two tokens gives one range of type T and
\* subtype S.
C18_SubtypeAppended ==
  (/\ called
   /\ acceptHeader.tag = "string"
   /\ plainType(acceptHeader.text)
   /\ \A k \in 1..2 : tokenText(split(acceptHeader.text, "/")[k]))
    => /\ ~outcome.threw
       /\ Len(parsedSpecs) = 1
       /\ parsedSpecs[1].type = split(acceptHeader.text, "/")[1]
       /\ parsedSpecs[1].subtype = split(acceptHeader.text, "/")[2]

\* The name a parameter text name=value writes.
writtenName(parameter) == SubSeq(parameter, 1, indexOfFrom(parameter, "=", 1) - 1)

\* C19: EXPECT_PARAMETER_VALUE starts the value with a token byte and
\* leaves the parameter name alone, so a header t/s;name=value with a token
\* for value gives one range with the single parameter name -> value.
C19_TokenValueStored ==
  \A r \in TokenRanges, x \in TokenParameters :
    (called /\ acceptHeader = JsString(r \o <<";">> \o x) /\ ~writesQ(x))
      => /\ ~outcome.threw
         /\ Len(parsedSpecs) = 1
         /\ DOMAIN parsedSpecs[1].parameters = {writtenName(x)}
         /\ parsedSpecs[1].parameters[writtenName(x)] = writtenValue(x)

\* C20: isToken accepts exactly the tchar bytes, so not "/", and a header
\* such as a/b/c, with a "/" where a subtype continues, is rejected.
C20_TokenBytes ==
  /\ \A code \in 0..127 : isToken(code) <=> code \in TokenCodes
  /\ (/\ called
      /\ acceptHeader.tag = "string"
      /\ SubSeq(acceptHeader.text, 1, 5) = <<"a", "/", "b", "/", "c">>)
       => outcome.threw

\* The loop is about to read a byte in the given state.
reading(state) ==
  /\ parsing
  /\ locals.error = NoError
  /\ locals.i <= Len(acceptHeader.text)
  /\ locals.state = state

\* C21: in EXPECT_PARAMETER_VALUE a byte that is neither a double quote
\* nor a token byte makes the parser fail, a second "=" among them.
C21_OtherBytesRejected ==
  [][(/\ reading(EXPECT_PARAMETER_VALUE)
      /\ charCodeAt(acceptHeader.text, locals.i) # DOUBLE_QUOTE
      /\ charCodeAt(acceptHeader.text, locals.i) \notin TokenCodes)
       => locals'.error # NoError]_vars

\* The ranges of the last call that match media type k, by their place in
\* the sorted list.
rangesMatching(k) ==
  {j \in 1..Len(parsedSpecs) : specMatches(parsedSpecs[j], digests[k])}

\* The q media type k is given: that of the first range matching it.
attributedQ(k) == parsedSpecs[firstOf(rangesMatching(k))].q

\* C22: a media type is attributed the q of the first range matching it in
\* the sorted list, not the greatest q among the ranges matching it: the
\* result is the first registered type whose attributed q no other exceeds.
C22_FirstMatchQ ==
  (answered /\ parsed /\ outcome.value # JsNull)
    => \E k \in 1..Len(mediaTypes) :
         /\ rangesMatching(k) # {}
         /\ outcome.value = JsString(mediaTypes[k])
         /\ \A m \in 1..Len(mediaTypes) :
              rangesMatching(m) # {}
                => /\ ~Gt(attributedQ(m), attributedQ(k))
                   /\ (m < k => Lt(attributedQ(m), attributedQ(k)))

\* Servers a/b and c/d, a header whose a/b has a lower q than its */*: a/b
\* is matched by both ranges and has the q of the first, so c/d is chosen.
C22_Witness ==
  /\ answered /\ parsed
  /\ mediaTypes = <<AB, CD>>
  /\ outcome.value = JsString(CD)
  /\ Cardinality(rangesMatching(1)) = 2
  /\ \E j \in rangesMatching(1) :
       /\ parsedSpecs[j].type = <<"*">>
       /\ Gt(parsedSpecs[j].q, attributedQ(1))
       /\ NumEq(parsedSpecs[j].q, attributedQ(2))

\* Media type k is matched and given the q 0.
matchedAtZero(k) == rangesMatching(k) # {} /\ NumEq(attributedQ(k), Zero)

greaterQElsewhere(k) ==
  \E m \in 1..Len(mediaTypes) :
    m # k /\ rangesMatching(m) # {} /\ Gt(attributedQ(m), attributedQ(k))

\* C23: a media type whose matching range has q 0 counts as matched: it
\* is the result unless another media type has a matching range of
\* greater q, and the result is null only when no media type is matched.
C23_ZeroQReturned ==
  (answered /\ parsed)
    => /\ \A k \in 1..Len(mediaTypes) :
            matchedAtZero(k)
              => outcome.value = JsString(mediaTypes[k]) \/ greaterQElsewhere(k)
       /\ outcome.value = JsNull
            => \A k \in 1..Len(mediaTypes) : rangesMatching(k) = {}

\* C23 with the tie: a media type matched at q 0 is the result unless
\* another has a matching range of greater q or one registered before it
\* is matched at q 0 too, and the result is null only when none is matched.
C23_ZeroQReturnedOrTied ==
  (answered /\ parsed)
    => /\ \A k \in 1..Len(mediaTypes) :
            matchedAtZero(k)
              => \/ outcome.value = JsString(mediaTypes[k])
                 \/ greaterQElsewhere(k)
                 \/ \E m \in 1..(k - 1) : matchedAtZero(m)
       /\ outcome.value = JsNull
            => \A k \in 1..Len(mediaTypes) : rangesMatching(k) = {}

\* Two media types are matched at q 0 and nothing higher: the one
\* registered first is the result.
C23_Witness ==
  /\ answered /\ parsed
  /\ Len(mediaTypes) = 2
  /\ matchedAtZero(1)
  /\ matchedAtZero(2)
  /\ outcome.value = JsString(mediaTypes[1])

\* The ways to put n things in order.
orders(n) ==
  {f \in [1..n -> 1..n] : \A i \in 1..n, j \in 1..n : f[i] = f[j] => i = j}

\* C24: the sorted list is the pushed ranges in another order, of scores
\* that never increase, and ranges of equal score stay in the order the
\* header gave them, whatever their q.
C24_StableSort ==
  (answered /\ parsed)
    => /\ Len(parsedSpecs) = Len(committed)
       /\ \E f \in orders(Len(committed)) :
            /\ \A i \in 1..Len(committed) : parsedSpecs[i] = committed[f[i]]
            /\ \A i \in 1..Len(committed), j \in 1..Len(committed) :
                 i < j => /\ score(parsedSpecs[i]) >= score(parsedSpecs[j])
                          /\ score(parsedSpecs[i]) = score(parsedSpecs[j])
                               => f[i] < f[j]

\* The sort moved a wildcard behind two ranges of equal score, which kept
\* their order although the second has the greater q.
C24_Witness ==
  /\ answered /\ parsed
  /\ Len(committed) = 3
  /\ parsedSpecs = <<committed[2], committed[3], committed[1]>>
  /\ score(committed[2]) = score(committed[3])
  /\ Lt(committed[2].q, committed[3].q)

\* Outside EXPECT_TYPE the parser holds a range, and it never reads a
\* field of a missing one.
holdsRange ==
  /\ locals.error # "TypeError"
  /\ (locals.error = NoError /\ locals.state # EXPECT_TYPE)
       => locals.currentAccept # <<>>

\* C25: at every step of parsing, a state other than EXPECT_TYPE comes with
\* a current range; a commit leaves the state EXPECT_TYPE and no current
\* range; so no step and no commit at the end reads a missing range.
C25_CurrentRange ==
  [][/\ holdsRange'
     /\ Len(locals'.accepts) > Len(locals.accepts)
          => locals'.state = EXPECT_TYPE /\ locals'.currentAccept = <<>>]_vars

\* A first range was committed at a comma and a second is under way.
C25_Witness ==
  /\ parsing
  /\ locals.error = NoError
  /\ Len(locals.accepts) = 1
  /\ locals.state = CONTINUE_SUBTYPE
  /\ locals.currentAccept # <<>>

\* The last header was present and held nothing but whitespace.
blankHeader ==
  /\ called
  /\ acceptHeader.tag = "string"
  /\ \A k \in 1..Len(acceptHeader.text) : isWhitespace(charCode(acceptHeader.text[k]))

\* C26: a header that is present but empty, or all whitespace, parses
\* without an error to no range; the call returns null, not the first media
\* type, and stores null in the cache under the header as given.
C26_BlankHeaderNull ==
  blankHeader
    => /\ ~outcome.threw
       /\ parsed
       /\ parsedSpecs = <<>>
       /\ outcome.value = JsNull
       /\ inserted
       /\ lruIndex(lru, acceptHeader.text) = 1
       /\ lru[1].value = JsNull

\* The empty header was given and null is in the cache under it.
C26_Witness ==
  /\ blankHeader
  /\ acceptHeader.text = <<>>
  /\ outcome.value = JsNull
  /\ lru = <<[key |-> <<>>, value |-> JsNull]>>

====
